---- MODULE Spec2Model ----
(***************************************************************************)
(* A model of thunderdome's generational arena (src/src/arena.rs,          *)
(* src/src/free_pointer.rs).  The arena is the triple                      *)
(* (storage, len, first_free); every public operation is an operator from  *)
(* an arena to a result (the new arena, the returned value, whether the    *)
(* call panicked) and an action that applies it.                           *)
(*                                                                         *)
(* Option<T> is a sequence: <<>> is None, <<x>> is Some(x).                *)
(* storage is a Vec: slot s of the code is storage[s + 1] here.            *)
(***************************************************************************)
EXTENDS Naturals, Sequences, FiniteSets

VARIABLES
    storage,     \* Arena::storage
    len,         \* Arena::len
    first_free,  \* Arena::first_free
    drain,       \* the Drain that borrows the arena, if one does
    last,        \* the call made last and what it returned
    live,        \* the Indices handed out and not removed or invalidated since
    retired,     \* the Indices handed out and removed or invalidated since
    freed,       \* the slots freed and not reused since, the last freed last
    peak         \* the largest len the arena has had

vars == <<storage, len, first_free, drain, last, live, retired, freed, peak>>

\* ------------------------------------------------------------------ bounds

\* no slot's generation is advanced past MaxGen in the model
MaxGen == 2

\* u32::MAX, the largest slot and the largest len, of a u32 narrowed to the
\* model's width
U32Max == 2

\* the values callers store
Values == {"a", "b"}

\* the slots callers pass: every u32
Slots == 0..U32Max

\* ------------------------------------------------------------- generation

\* Generation::first()
GenFirst == 1

\* Generation::next()
GenNext(g) == g + 1

Generations == GenFirst..MaxGen

\* ----------------------------------------------------------- free pointer

\* FreePointer::from_slot: the slot plus one, so that it is never zero; a slot
\* is a u32 and the sum a usize, so checked_add does not fail
FromSlot(slot) == slot + 1

\* FreePointer::slot
FreeSlot(p) == p - 1

\* ------------------------------------------------------------------ types

None == <<>>

Some(x) == <<x>>

\* struct Index
Index(s, g) == [slot |-> s, generation |-> g]

\* the Indices callers pass, valid or not
Indices == {Index(s, g) : s \in Slots, g \in Generations}

\* Generation::to_u32()
GenToU32(g) == g

\* Generation::from_u32(): zero is no generation
GenFromU32(n) ==
    IF n = 0 THEN [ret |-> None, panicked |-> TRUE]
    ELSE [ret |-> Some(n), panicked |-> FALSE]

\* the number of values of a u32: what << 32 multiplies by, what >> 32 divides
\* by, and what `as u32` reduces by
Word == U32Max + 1

\* every u64
Bits64 == 0..(Word * Word - 1)

\* to_bits with a fault: the slot is put in the high word and the generation in
\* the low one
ToBitsSwapped(index) ==
    (index.slot * Word) + (GenToU32(index.generation) % Word)

\* Index::to_bits; the two words do not overlap, so | adds them
ToBits(index) ==
    (((GenToU32(index.generation) % Word) * Word) % (Word * Word))
        + (index.slot % Word)

\* from_bits with a fault: the high word is taken as the generation unchecked
FromBitsUnchecked(bits) ==
    [ret |-> Some(Index(bits % Word, (bits \div Word) % Word)),
     panicked |-> FALSE]

\* Index::from_bits
FromBits(bits) ==
    LET generation == GenFromU32((bits \div Word) % Word)
        slot       == bits % Word
    IN  IF generation.panicked
        THEN [ret |-> None, panicked |-> TRUE]
        ELSE [ret |-> Some(Index(slot, generation.ret[1])), panicked |-> FALSE]

\* Entry::Occupied(OccupiedEntry { generation, value })
Occupied(g, v) == [tag |-> "Occupied", generation |-> g, value |-> v]

\* Entry::Empty(EmptyEntry { generation, next_free })
Empty(g, nf) == [tag |-> "Empty", generation |-> g, next_free |-> nf]

\* struct Arena
Arena(st, l, ff) == [storage |-> st, len |-> l, first_free |-> ff]

\* what a call leaves behind: the arena, the value returned, a panic
Result(a, r, p) == [arena |-> a, ret |-> r, panicked |-> p]

\* Vec::get / Vec::get_mut
VecGet(st, slot) == IF slot < Len(st) THEN Some(st[slot + 1]) ELSE None

\* *entry = new_entry, for the entry at slot
VecSet(st, slot, e) == [st EXCEPT ![slot + 1] = e]

\* ------------------------------------------------------------- operations

\* Arena::new
New == Arena(<<>>, 0, None)

\* insert with a fault: a reused slot keeps the generation it had
InsertOpSameGeneration(A, value) ==
    IF A.len + 1 > U32Max
    THEN Result(A, None, TRUE)
    ELSE LET l == A.len + 1 IN
         IF A.first_free # None
         THEN LET slot == FreeSlot(A.first_free[1])
                  got  == VecGet(A.storage, slot)
              IN  IF got = None \/ got[1].tag # "Empty"
                  THEN Result(Arena(A.storage, l, A.first_free), None, TRUE)
                  ELSE LET empty      == got[1]
                           generation == empty.generation
                       IN  Result(Arena(VecSet(A.storage, slot,
                                               Occupied(generation, value)),
                                        l, empty.next_free),
                                  Some(Index(slot, generation)), FALSE)
         ELSE Result(Arena(Append(A.storage, Occupied(GenFirst, value)),
                           l, A.first_free),
                     Some(Index(Len(A.storage), GenFirst)), FALSE)

\* insert with a fault: len is updated only when storage grows
InsertOpLenOnGrowth(A, value) ==
    IF A.len + 1 > U32Max
    THEN Result(A, None, TRUE)
    ELSE IF A.first_free # None
         THEN LET slot == FreeSlot(A.first_free[1])
                  got  == VecGet(A.storage, slot)
              IN  IF got = None \/ got[1].tag # "Empty"
                  THEN Result(A, None, TRUE)
                  ELSE LET empty      == got[1]
                           generation == GenNext(empty.generation)
                       IN  Result(Arena(VecSet(A.storage, slot,
                                               Occupied(generation, value)),
                                        A.len, empty.next_free),
                                  Some(Index(slot, generation)), FALSE)
         ELSE Result(Arena(Append(A.storage, Occupied(GenFirst, value)),
                           A.len + 1, A.first_free),
                     Some(Index(Len(A.storage), GenFirst)), FALSE)

\* insert with a fault: the reused slot stays the head of the free list
InsertOpKeepsHead(A, value) ==
    IF A.len + 1 > U32Max
    THEN Result(A, None, TRUE)
    ELSE LET l == A.len + 1 IN
         IF A.first_free # None
         THEN LET slot == FreeSlot(A.first_free[1])
                  got  == VecGet(A.storage, slot)
              IN  IF got = None \/ got[1].tag # "Empty"
                  THEN Result(Arena(A.storage, l, A.first_free), None, TRUE)
                  ELSE LET empty      == got[1]
                           generation == GenNext(empty.generation)
                       IN  Result(Arena(VecSet(A.storage, slot,
                                               Occupied(generation, value)),
                                        l, A.first_free),
                                  Some(Index(slot, generation)), FALSE)
         ELSE Result(Arena(Append(A.storage, Occupied(GenFirst, value)),
                           l, A.first_free),
                     Some(Index(Len(A.storage), GenFirst)), FALSE)

\* insert with a fault: len is advanced with wrapping_add, so that insert never
\* panics
InsertOpWrappingLen(A, value) ==
    LET l    == (A.len + 1) % (U32Max + 1)
        got  == IF A.first_free = None THEN None
                ELSE VecGet(A.storage, FreeSlot(A.first_free[1]))
    IN  IF got # None /\ got[1].tag = "Empty"
        THEN LET slot       == FreeSlot(A.first_free[1])
                 generation == GenNext(got[1].generation)
             IN  Result(Arena(VecSet(A.storage, slot, Occupied(generation, value)),
                              l, got[1].next_free),
                        Some(Index(slot, generation)), FALSE)
        ELSE Result(Arena(Append(A.storage, Occupied(GenFirst, value)),
                          l, A.first_free),
                    Some(Index(Len(A.storage), GenFirst)), FALSE)

\* insert with a fault: the free list is not looked at and the value is always
\* pushed
InsertOpAlwaysAppends(A, value) ==
    IF A.len + 1 > U32Max
    THEN Result(A, None, TRUE)
    ELSE Result(Arena(Append(A.storage, Occupied(GenFirst, value)),
                      A.len + 1, A.first_free),
                Some(Index(Len(A.storage), GenFirst)), FALSE)

\* Arena::insert
InsertOp(A, value) ==
    IF A.len + 1 > U32Max
    THEN Result(A, None, TRUE)
    ELSE LET l == A.len + 1 IN
         IF A.first_free # None
         THEN LET slot == FreeSlot(A.first_free[1])
                  got  == VecGet(A.storage, slot)
              IN  IF got = None \/ got[1].tag # "Empty"
                  THEN Result(Arena(A.storage, l, A.first_free), None, TRUE)
                  ELSE LET empty      == got[1]
                           generation == GenNext(empty.generation)
                       IN  Result(Arena(VecSet(A.storage, slot,
                                               Occupied(generation, value)),
                                        l, empty.next_free),
                                  Some(Index(slot, generation)), FALSE)
         ELSE LET slot == Len(A.storage)
              IN  IF slot > U32Max
                  THEN Result(Arena(A.storage, l, A.first_free), None, TRUE)
                  ELSE Result(Arena(Append(A.storage, Occupied(GenFirst, value)),
                                    l, A.first_free),
                              Some(Index(slot, GenFirst)), FALSE)

\* the match arm with a fault: the guard on the generation is missing
MatchesAnyGeneration(A, index) ==
    LET got == VecGet(A.storage, index.slot)
    IN  got # None /\ got[1].tag = "Occupied"

\* the match arm of contains, get, get_mut, remove and invalidate:
\* Some(Entry::Occupied(occupied)) if occupied.generation == index.generation
Matches(A, index) ==
    LET got == VecGet(A.storage, index.slot)
    IN  /\ got # None
        /\ got[1].tag = "Occupied"
        /\ got[1].generation = index.generation

\* Arena::contains
Contains(A, index) == Matches(A, index)

\* contains_slot with a fault: an Empty entry's generation is reported as well
ContainsSlotAnyEntry(A, slot) ==
    LET got == VecGet(A.storage, slot)
    IN  IF got # None THEN Some(Index(slot, got[1].generation)) ELSE None

\* Arena::contains_slot
ContainsSlot(A, slot) ==
    LET got == VecGet(A.storage, slot)
    IN  IF got # None /\ got[1].tag = "Occupied"
        THEN Some(Index(slot, got[1].generation))
        ELSE None

\* Arena::get
Get(A, index) ==
    IF Matches(A, index) THEN Some(A.storage[index.slot + 1].value) ELSE None

\* Arena::get_mut; a reference is the slot of the cell it points to
GetMut(A, index) ==
    IF Matches(A, index) THEN Some(index.slot) ELSE None

\* *reference = value, by the caller of get_mut
Store(A, reference, value) ==
    Arena(VecSet(A.storage, reference,
                 Occupied(A.storage[reference + 1].generation, value)),
          A.len, A.first_free)

\* Arena::get_by_slot
GetBySlot(A, slot) ==
    LET got == VecGet(A.storage, slot)
    IN  IF got # None /\ got[1].tag = "Occupied"
        THEN LET occupied == got[1]
                 index    == Index(slot, occupied.generation)
             IN  Some(<<index, occupied.value>>)
        ELSE None

\* Arena::get_by_slot_mut; a reference is the slot of the cell it points to
GetBySlotMut(A, slot) ==
    LET got == VecGet(A.storage, slot)
    IN  IF got # None /\ got[1].tag = "Occupied"
        THEN LET occupied == got[1]
                 index    == Index(slot, occupied.generation)
             IN  Some(<<index, slot>>)
        ELSE None

\* remove with a fault: the last entry of storage is moved into the emptied
\* slot and storage shrinks by one, as Vec::swap_remove does
RemoveOpSwapRemove(A, index) ==
    IF Matches(A, index) /\ A.len > 0
    THEN LET n     == Len(A.storage)
             moved == VecSet(A.storage, index.slot, A.storage[n])
         IN  Result(Arena(SubSeq(moved, 1, n - 1), A.len - 1, A.first_free),
                    Some(A.storage[index.slot + 1].value), FALSE)
    ELSE Result(A, None, FALSE)

\* remove with a fault: the free pointer is made from the slot after the one
\* emptied
RemoveOpPointsPast(A, index) ==
    IF Matches(A, index) /\ A.len > 0
    THEN LET occupied == A.storage[index.slot + 1]
         IN  Result(Arena(VecSet(A.storage, index.slot,
                                 Empty(occupied.generation, A.first_free)),
                          A.len - 1,
                          Some(FromSlot(index.slot + 1))),
                    Some(occupied.value), FALSE)
    ELSE Result(A, None, FALSE)

\* remove with a fault: the Empty entry is given the next generation
RemoveOpNextGeneration(A, index) ==
    IF Matches(A, index) /\ A.len > 0
    THEN LET occupied == A.storage[index.slot + 1]
         IN  Result(Arena(VecSet(A.storage, index.slot,
                                 Empty(GenNext(occupied.generation), A.first_free)),
                          A.len - 1,
                          Some(FromSlot(index.slot))),
                    Some(occupied.value), FALSE)
    ELSE Result(A, None, FALSE)

\* remove with a fault: len is not decremented
RemoveOpKeepsLen(A, index) ==
    IF Matches(A, index)
    THEN LET occupied == A.storage[index.slot + 1]
         IN  Result(Arena(VecSet(A.storage, index.slot,
                                 Empty(occupied.generation, A.first_free)),
                          A.len,
                          Some(FromSlot(index.slot))),
                    Some(occupied.value), FALSE)
    ELSE Result(A, None, FALSE)

\* remove with a fault: the freed entry is not linked to the old head
RemoveOpUnlinked(A, index) ==
    IF Matches(A, index) /\ A.len > 0
    THEN LET occupied == A.storage[index.slot + 1]
         IN  Result(Arena(VecSet(A.storage, index.slot,
                                 Empty(occupied.generation, None)),
                          A.len - 1,
                          Some(FromSlot(index.slot))),
                    Some(occupied.value), FALSE)
    ELSE Result(A, None, FALSE)

\* remove with a fault: the generation is not compared, as in remove_by_slot
RemoveOpAnyGeneration(A, index) ==
    LET got == VecGet(A.storage, index.slot)
    IN  IF got # None /\ got[1].tag = "Occupied" /\ A.len > 0
        THEN Result(Arena(VecSet(A.storage, index.slot,
                                 Empty(got[1].generation, A.first_free)),
                          A.len - 1,
                          Some(FromSlot(index.slot))),
                    Some(got[1].value), FALSE)
        ELSE Result(A, None, FALSE)

\* Arena::remove
RemoveOp(A, index) ==
    IF Matches(A, index)
    THEN LET occupied == A.storage[index.slot + 1]
             removed  == Arena(VecSet(A.storage, index.slot,
                                      Empty(occupied.generation, A.first_free)),
                               A.len,
                               Some(FromSlot(index.slot)))
         IN  IF A.len = 0
             THEN Result(removed, None, TRUE)
             ELSE Result(Arena(removed.storage, A.len - 1, removed.first_free),
                         Some(occupied.value), FALSE)
    ELSE Result(A, None, FALSE)

\* invalidate with a fault: the new generation is returned and not stored
InvalidateOpNotStored(A, index) ==
    IF Matches(A, index)
    THEN Result(A, Some(Index(index.slot, GenNext(index.generation))), FALSE)
    ELSE Result(A, None, FALSE)

\* Arena::invalidate
InvalidateOp(A, index) ==
    IF Matches(A, index)
    THEN LET occupied   == A.storage[index.slot + 1]
             generation == GenNext(occupied.generation)
         IN  Result(Arena(VecSet(A.storage, index.slot,
                                 Occupied(generation, occupied.value)),
                          A.len, A.first_free),
                    Some(Index(index.slot, generation)), FALSE)
    ELSE Result(A, None, FALSE)

\* get2_mut with a fault: it panics whenever the two slots are equal
Get2MutOpSameSlot(A, index1, index2) ==
    IF index1.slot = index2.slot
    THEN Result(A, None, TRUE)
    ELSE Result(A, Some(<<GetMut(A, index1), GetMut(A, index2)>>), FALSE)

\* get2_mut with a fault: the second lookup is made with the first Index
Get2MutOpFirstTwice(A, index1, index2) ==
    IF index1 = index2
    THEN Result(A, None, TRUE)
    ELSE Result(A, Some(<<GetMut(A, index1), GetMut(A, index1)>>), FALSE)

\* Arena::get2_mut; a reference is the slot of the cell it points to
Get2MutOp(A, index1, index2) ==
    IF index1 = index2
    THEN Result(A, None, TRUE)
    ELSE LET item1 == GetMut(A, index1)
             item2 == GetMut(A, index2)
         IN  Result(A, Some(<<item1, item2>>), FALSE)

\* remove_by_slot with a fault: the generation is advanced when the slot is
\* emptied
RemoveBySlotOpNextGeneration(A, slot) ==
    LET got == VecGet(A.storage, slot)
    IN  IF got # None /\ got[1].tag = "Occupied" /\ A.len > 0
        THEN Result(Arena(VecSet(A.storage, slot,
                                 Empty(GenNext(got[1].generation), A.first_free)),
                          A.len - 1, Some(FromSlot(slot))),
                    Some(<<Index(slot, got[1].generation), got[1].value>>), FALSE)
        ELSE Result(A, None, FALSE)

\* remove_by_slot with a fault: the emptied slot is not made the free list's head
RemoveBySlotOpKeepsHead(A, slot) ==
    LET got == VecGet(A.storage, slot)
    IN  IF got # None /\ got[1].tag = "Occupied" /\ A.len > 0
        THEN Result(Arena(VecSet(A.storage, slot,
                                 Empty(got[1].generation, A.first_free)),
                          A.len - 1, A.first_free),
                    Some(<<Index(slot, got[1].generation), got[1].value>>), FALSE)
        ELSE Result(A, None, FALSE)

\* remove_by_slot with a fault: len is not decremented
RemoveBySlotOpKeepsLen(A, slot) ==
    LET got == VecGet(A.storage, slot)
    IN  IF got # None /\ got[1].tag = "Occupied"
        THEN Result(Arena(VecSet(A.storage, slot,
                                 Empty(got[1].generation, A.first_free)),
                          A.len,
                          Some(FromSlot(slot))),
                    Some(<<Index(slot, got[1].generation), got[1].value>>), FALSE)
        ELSE Result(A, None, FALSE)

\* Arena::remove_by_slot
RemoveBySlotOp(A, slot) ==
    LET got == VecGet(A.storage, slot)
    IN  IF got # None /\ got[1].tag = "Occupied"
        THEN LET occupied == got[1]
                 index    == Index(slot, occupied.generation)
                 removed  == Arena(VecSet(A.storage, slot,
                                          Empty(occupied.generation, A.first_free)),
                                   A.len,
                                   Some(FromSlot(slot)))
             IN  IF A.len = 0
                 THEN Result(removed, None, TRUE)
                 ELSE Result(Arena(removed.storage, A.len - 1, removed.first_free),
                             Some(<<index, occupied.value>>), FALSE)
        ELSE Result(A, None, FALSE)

\* Arena::retain, from slot i on. f returns true on the slots in keep, after
\* storing write, if it is Some, through the reference it is given; seen are
\* the Indices f was called with so far
RECURSIVE RetainFrom(_, _, _, _, _)
RetainFrom(A, keep, write, i, seen) ==
    IF i >= Len(A.storage)
    THEN Result(A, seen, FALSE)
    ELSE LET entry == A.storage[i + 1]
         IN  IF entry.tag = "Occupied"
             THEN LET index == Index(i, entry.generation)
                      called == IF write = None THEN A ELSE Store(A, i, write[1])
                      emptied == Arena(VecSet(A.storage, i,
                                              Empty(entry.generation, A.first_free)),
                                       A.len,
                                       Some(FromSlot(index.slot)))
                  IN  IF i \in keep
                      THEN RetainFrom(called, keep, write, i + 1,
                                      Append(seen, index))
                      ELSE IF A.len = 0
                      THEN Result(emptied, Append(seen, index), TRUE)
                      ELSE RetainFrom(Arena(emptied.storage, A.len - 1,
                                            emptied.first_free),
                                      keep, write, i + 1, Append(seen, index))
             ELSE RetainFrom(A, keep, write, i + 1, seen)

\* retain with a fault: the walk over storage starts at the second slot
RetainOpSkipsFirst(A, keep, write) == RetainFrom(A, keep, write, 1, <<>>)

\* Arena::retain; it returns nothing, and what is reported are the Indices f
\* was called with, in the order of the calls
RetainOp(A, keep, write) == RetainFrom(A, keep, write, 0, <<>>)

\* Drain::next with the drain at slot: the next Occupied slot from there on is
\* removed as remove_by_slot removes it, and yielded
RECURSIVE DrainNextOp(_, _)
DrainNextOp(A, slot) ==
    IF slot >= Len(A.storage)
    THEN [arena |-> A, ret |-> None, panicked |-> FALSE, slot |-> slot]
    ELSE LET r == RemoveBySlotOp(A, slot)
         IN  IF r.ret # None \/ r.panicked
             THEN [arena |-> r.arena, ret |-> r.ret, panicked |-> r.panicked,
                   slot |-> slot + 1]
             ELSE DrainNextOp(A, slot + 1)

\* self.drain().for_each(drop), with the drain at slot and the pairs in
\* dropped yielded so far
RECURSIVE DrainAll(_, _, _)
DrainAll(A, slot, dropped) ==
    LET r == DrainNextOp(A, slot)
    IN  IF r.ret = None THEN Result(r.arena, dropped, r.panicked)
        ELSE DrainAll(r.arena, r.slot, Append(dropped, r.ret[1]))

\* dropping a Drain with a fault: the elements not yet yielded are removed too
DrainDropOpClears(A, slot) == Result(DrainAll(A, slot, <<>>).arena, None, FALSE)

\* dropping a Drain that has reached slot: the elements it has not yielded stay
DrainDropOp(A, slot) == Result(A, None, FALSE)

\* Arena::clear; it returns nothing, and what is reported are the pairs the
\* drain yielded, in order
ClearOp(A) == DrainAll(A, 0, <<>>)

\* Iter::next and IterMut::next called until None over storage.iter()
\* .enumerate(), from slot on: the entries are taken by ascending position, an
\* Occupied one yields its Index with its value (Iter) or with a reference to
\* its value (IterMut), an Empty one is skipped
RECURSIVE IterFrom(_, _, _, _)
IterFrom(A, slot, mutable, yielded) ==
    IF slot >= Len(A.storage)
    THEN yielded
    ELSE LET entry == A.storage[slot + 1]
         IN  IF entry.tag = "Occupied"
             THEN IterFrom(A, slot + 1, mutable,
                           Append(yielded, <<Index(slot, entry.generation),
                                             IF mutable THEN slot
                                             ELSE entry.value>>))
             ELSE IterFrom(A, slot + 1, mutable, yielded)

\* the scan with a fault: the entries are filtered before they are enumerated,
\* so that the positions count the Occupied entries only
RECURSIVE IterFilteredFrom(_, _, _, _)
IterFilteredFrom(A, slot, count, yielded) ==
    IF slot >= Len(A.storage)
    THEN yielded
    ELSE LET entry == A.storage[slot + 1]
         IN  IF entry.tag = "Occupied"
             THEN IterFilteredFrom(A, slot + 1, count + 1,
                                   Append(yielded, <<Index(count, entry.generation),
                                                     entry.value>>))
             ELSE IterFilteredFrom(A, slot + 1, count, yielded)

\* iter with a fault: enumerate() is applied after the Empty entries are dropped
IterOpEnumeratesOccupied(A) ==
    Result(A, IterFilteredFrom(A, 0, 0, <<>>), FALSE)

\* Arena::iter, run to its end; the items are the values
IterOp(A) ==
    Result(A, IterFrom(A, 0, FALSE, <<>>), FALSE)

\* Arena::iter_mut, run to its end; a reference is the slot of the cell it
\* points to
IterMutOp(A) ==
    Result(A, IterFrom(A, 0, TRUE, <<>>), FALSE)

\* *reference = value for each reference of refs in turn, by the caller of
\* iter_mut
RECURSIVE StoreEach(_, _, _)
StoreEach(A, refs, value) ==
    IF refs = <<>> THEN A
    ELSE StoreEach(Store(A, Head(refs), value), Tail(refs), value)

\* ------------------------------------------------------------------ state

\* the arena the variables hold
arena == Arena(storage, len, first_free)

\* the call that was made last: its name, what it returned, whether it panicked
Call(op, r) == [op |-> op, ret |-> r.ret, panicked |-> r.panicked]

\* the variables after a call that left r behind
Becomes(r) ==
    /\ storage' = r.arena.storage
    /\ len' = r.arena.len
    /\ first_free' = r.arena.first_free
    /\ peak' = IF r.arena.len > peak THEN r.arena.len ELSE peak

\* a Drain over the arena that scans from slot on, with the number of pairs it
\* has yielded
DrainAt(slot, yielded) == [slot |-> slot, yielded |-> yielded]

\* no Drain borrows the arena
Idle == drain = None

\* the elements of a sequence
Range(seq) == {seq[k] : k \in 1..Len(seq)}

\* the caller's books after it was handed the Indices in minted and saw the
\* Indices in gone, in that order, removed
Removed(gone) ==
    /\ live' = live \ Range(gone)
    /\ retired' = retired \cup Range(gone)
    /\ freed' = freed \o [k \in 1..Len(gone) |-> gone[k].slot]

\* the generation the next insert hands out is within the model's bound
InsertInBounds ==
    first_free # None =>
        LET got == VecGet(storage, FreeSlot(first_free[1]))
        IN  got # None => GenNext(got[1].generation) <= MaxGen

\* the generation invalidate(index) hands out is within the model's bound
InvalidateInBounds(index) ==
    Matches(arena, index) => GenNext(index.generation) <= MaxGen

Init ==
    /\ storage = New.storage
    /\ len = New.len
    /\ first_free = New.first_free
    /\ drain = None
    /\ last = Call("new", Result(New, None, FALSE))
    /\ live = {}
    /\ retired = {}
    /\ freed = <<>>
    /\ peak = New.len

Insert(value) ==
    /\ Idle
    /\ InsertInBounds
    /\ LET r == InsertOp(arena, value)
       IN  /\ Becomes(r)
           /\ last' = Call("insert", r)
           /\ live' = live \cup Range(r.ret)
           /\ freed' = IF r.ret = None THEN freed
                       ELSE SelectSeq(freed, LAMBDA s : s # r.ret[1].slot)
    /\ UNCHANGED <<drain, retired>>

ContainsCall(index) ==
    /\ Idle
    /\ last' = Call("contains", Result(arena, Contains(arena, index), FALSE))
    /\ UNCHANGED <<storage, len, first_free, peak, drain, live, retired, freed>>

GetCall(index) ==
    /\ Idle
    /\ last' = Call("get", Result(arena, Get(arena, index), FALSE))
    /\ UNCHANGED <<storage, len, first_free, peak, drain, live, retired, freed>>

\* get_mut(index), and the caller storing value through the reference
GetMutCall(index, value) ==
    /\ Idle
    /\ LET item == GetMut(arena, index)
       IN  /\ Becomes(Result(IF item = None THEN arena
                                             ELSE Store(arena, item[1], value),
                             item, FALSE))
           /\ last' = Call("get_mut", Result(arena, item, FALSE))
    /\ UNCHANGED <<drain, live, retired, freed>>

ContainsSlotCall(slot) ==
    /\ Idle
    /\ last' = Call("contains_slot", Result(arena, ContainsSlot(arena, slot), FALSE))
    /\ UNCHANGED <<storage, len, first_free, peak, drain, live, retired, freed>>

GetBySlotCall(slot) ==
    /\ Idle
    /\ last' = Call("get_by_slot", Result(arena, GetBySlot(arena, slot), FALSE))
    /\ UNCHANGED <<storage, len, first_free, peak, drain, live, retired, freed>>

\* get_by_slot_mut(slot), and the caller storing value through the reference
GetBySlotMutCall(slot, value) ==
    /\ Idle
    /\ LET item == GetBySlotMut(arena, slot)
       IN  /\ Becomes(Result(IF item = None THEN arena
                                             ELSE Store(arena, item[1][2], value),
                             item, FALSE))
           /\ last' = Call("get_by_slot_mut", Result(arena, item, FALSE))
    /\ UNCHANGED <<drain, live, retired, freed>>

\* iter(), consumed to its end
IterCall ==
    /\ Idle
    /\ last' = Call("iter", IterOp(arena))
    /\ UNCHANGED <<storage, len, first_free, peak, drain, live, retired, freed>>

\* iter_mut(), consumed to its end, and the caller storing the value of write
\* (if any) through every reference
IterMutCall(write) ==
    /\ Idle
    /\ LET r    == IterMutOp(arena)
           refs == [k \in 1..Len(r.ret) |-> r.ret[k][2]]
       IN  /\ Becomes(Result(IF write = None THEN r.arena
                             ELSE StoreEach(r.arena, refs, write[1]),
                             r.ret, r.panicked))
           /\ last' = Call("iter_mut", r)
    /\ UNCHANGED <<drain, live, retired, freed>>

Get2MutCall(index1, index2) ==
    /\ Idle
    /\ LET r == Get2MutOp(arena, index1, index2)
       IN  Becomes(r) /\ last' = Call("get2_mut", r)
    /\ UNCHANGED <<drain, live, retired, freed>>

Remove(index) ==
    /\ Idle
    /\ LET r == RemoveOp(arena, index)
       IN  /\ Becomes(r)
           /\ last' = Call("remove", r)
           /\ Removed(IF r.ret = None THEN <<>> ELSE <<index>>)
    /\ UNCHANGED drain

Invalidate(index) ==
    /\ Idle
    /\ InvalidateInBounds(index)
    /\ LET r == InvalidateOp(arena, index)
       IN  /\ Becomes(r)
           /\ last' = Call("invalidate", r)
           /\ live' = IF r.ret = None THEN live
                      ELSE (live \ {index}) \cup Range(r.ret)
           /\ retired' = IF r.ret = None THEN retired
                         ELSE retired \cup {index}
    /\ UNCHANGED <<drain, freed>>

RemoveBySlot(slot) ==
    /\ Idle
    /\ LET r == RemoveBySlotOp(arena, slot)
       IN  /\ Becomes(r)
           /\ last' = Call("remove_by_slot", r)
           /\ Removed(IF r.ret = None THEN <<>> ELSE <<r.ret[1][1]>>)
    /\ UNCHANGED drain

Retain(keep, write) ==
    /\ Idle
    /\ LET r == RetainOp(arena, keep, write)
       IN  /\ Becomes(r)
           /\ last' = Call("retain", r)
           /\ Removed(SelectSeq(r.ret, LAMBDA index : index.slot \notin keep))
    /\ UNCHANGED drain

Clear ==
    /\ Idle
    /\ LET r == ClearOp(arena)
       IN  /\ Becomes(r)
           /\ last' = Call("clear", r)
           /\ Removed([k \in 1..Len(r.ret) |-> r.ret[k][1]])
    /\ UNCHANGED drain

\* Arena::drain
DrainBegin ==
    /\ Idle
    /\ drain' = Some(DrainAt(0, 0))
    /\ last' = Call("drain", Result(arena, None, FALSE))
    /\ UNCHANGED <<storage, len, first_free, peak, live, retired, freed>>

DrainNext ==
    /\ drain # None
    /\ LET r == DrainNextOp(arena, drain[1].slot)
       IN  /\ Becomes(r)
           /\ drain' = Some(DrainAt(r.slot, IF r.ret = None THEN drain[1].yielded
                                            ELSE drain[1].yielded + 1))
           /\ last' = Call("drain_next", r)
           /\ Removed(IF r.ret = None THEN <<>> ELSE <<r.ret[1][1]>>)

\* the Drain is dropped, exhausted or not; it returns nothing, and what is
\* reported is the number of pairs the Drain had yielded
DrainDrop ==
    /\ drain # None
    /\ LET r == DrainDropOp(arena, drain[1].slot)
       IN  /\ Becomes(r)
           /\ last' = Call("drain_drop",
                           Result(r.arena, Some(drain[1].yielded), r.panicked))
    /\ drain' = None
    /\ UNCHANGED <<live, retired, freed>>

\* the Indices the arena has handed out so far, valid or not any more
HandedOut == live \cup retired

ToBitsCall(index) ==
    /\ last' = Call("to_bits", [ret |-> Some(ToBits(index)), panicked |-> FALSE])
    /\ UNCHANGED <<storage, len, first_free, peak, drain, live, retired, freed>>

FromBitsCall(bits) ==
    /\ last' = Call("from_bits", FromBits(bits))
    /\ UNCHANGED <<storage, len, first_free, peak, drain, live, retired, freed>>

Next ==
    \/ \E value \in Values : Insert(value)
    \/ \E index \in Indices : ContainsCall(index)
    \/ \E index \in Indices : GetCall(index)
    \/ \E index \in Indices, value \in Values : GetMutCall(index, value)
    \/ \E slot \in Slots : ContainsSlotCall(slot)
    \/ \E slot \in Slots : GetBySlotCall(slot)
    \/ \E slot \in Slots, value \in Values : GetBySlotMutCall(slot, value)
    \/ \E index1, index2 \in HandedOut : Get2MutCall(index1, index2)
    \/ \E index \in Indices : Remove(index)
    \/ \E index \in Indices : Invalidate(index)
    \/ \E slot \in Slots : RemoveBySlot(slot)
    \/ \E keep \in SUBSET (0..(U32Max - 1)),
          write \in {None} \cup {Some(value) : value \in Values} :
          Retain(keep, write)
    \/ Clear
    \/ DrainBegin
    \/ DrainNext
    \/ DrainDrop
    \/ \E index \in HandedOut : ToBitsCall(index)
    \/ \E bits \in Bits64 : FromBitsCall(bits)
    \/ IterCall
    \/ \E write \in {None} \cup {Some(value) : value \in Values} : IterMutCall(write)

Spec == Init /\ [][Next]_vars

\* the calls that change the arena or borrow it for a Drain; the other calls
\* leave the arena as it is, so these reach every arena Next reaches
NextMutation ==
    \/ \E value \in Values : Insert(value)
    \/ \E index \in Indices, value \in Values : GetMutCall(index, value)
    \/ \E slot \in Slots, value \in Values : GetBySlotMutCall(slot, value)
    \/ \E index \in Indices : Remove(index)
    \/ \E index \in Indices : Invalidate(index)
    \/ \E slot \in Slots : RemoveBySlot(slot)
    \/ \E keep \in SUBSET (0..(U32Max - 1)),
          write \in {None} \cup {Some(value) : value \in Values} :
          Retain(keep, write)
    \/ Clear
    \/ DrainBegin
    \/ DrainNext
    \/ DrainDrop

SpecMutation == Init /\ [][NextMutation]_vars

\* the calls that change the arena, and get2_mut
NextGet2Mut ==
    \/ NextMutation
    \/ \E index1, index2 \in HandedOut : Get2MutCall(index1, index2)

SpecGet2Mut == Init /\ [][NextGet2Mut]_vars

\* the calls that change the arena, and the lookups through &self
NextLookup ==
    \/ NextMutation
    \/ \E index \in Indices : ContainsCall(index)
    \/ \E index \in Indices : GetCall(index)
    \/ \E slot \in Slots : ContainsSlotCall(slot)
    \/ \E slot \in Slots : GetBySlotCall(slot)

SpecLookup == Init /\ [][NextLookup]_vars

\* the calls that hand out and retire Indices, and the conversions of an Index
\* to and from its bits
NextBits ==
    \/ \E value \in Values : Insert(value)
    \/ \E index \in Indices : Remove(index)
    \/ \E index \in Indices : Invalidate(index)
    \/ \E index \in HandedOut : ToBitsCall(index)
    \/ \E bits \in Bits64 : FromBitsCall(bits)

SpecBits == Init /\ [][NextBits]_vars

\* the calls that change the arena, and the two iterations
NextIter ==
    \/ NextMutation
    \/ IterCall
    \/ \E write \in {None} \cup {Some(value) : value \in Values} : IterMutCall(write)

SpecIter == Init /\ [][NextIter]_vars

\* ----------------------------------------------------------------- claims

\* an Index is valid: its slot is within storage, the entry there is Occupied
\* and the entry's generation is the Index's
Valid(A, i) ==
    /\ i.slot < Len(A.storage)
    /\ A.storage[i.slot + 1].tag = "Occupied"
    /\ A.storage[i.slot + 1].generation = i.generation

\* an Index is not valid: slot out of range, slot Empty, or slot Occupied with
\* a different generation
Invalid(A, i) ==
    \/ i.slot >= Len(A.storage)
    \/ /\ i.slot < Len(A.storage)
       /\ A.storage[i.slot + 1].tag = "Empty"
    \/ /\ i.slot < Len(A.storage)
       /\ A.storage[i.slot + 1].tag = "Occupied"
       /\ A.storage[i.slot + 1].generation # i.generation

\* the value stored under a valid Index
ValueAt(A, i) == A.storage[i.slot + 1].value

\* the arena without its values: which slots are Occupied, the generations,
\* the free list, len
Structure(A) ==
    [storage    |-> [k \in 1..Len(A.storage) |->
                        IF A.storage[k].tag = "Occupied"
                        THEN [tag |-> "Occupied",
                              generation |-> A.storage[k].generation]
                        ELSE A.storage[k]],
     len        |-> A.len,
     first_free |-> A.first_free]

\* the slots on the free list from pointer p on, the head first; fuel bounds
\* the walk
RECURSIVE FreeListFrom(_, _, _)
FreeListFrom(A, p, fuel) ==
    IF p = None \/ fuel = 0
    THEN <<>>
    ELSE LET got == VecGet(A.storage, FreeSlot(p[1]))
         IN  IF got = None \/ got[1].tag # "Empty"
             THEN <<FreeSlot(p[1])>>
             ELSE <<FreeSlot(p[1])>> \o FreeListFrom(A, got[1].next_free, fuel - 1)

FreeList(A) == FreeListFrom(A, A.first_free, Len(A.storage) + 1)

\* C1: an Index that was removed (or invalidated) never resolves again,
\* whatever is done to the arena afterwards and however often its slot is
\* reused, and an Index that was handed out resolves for as long as it has not
\* been removed or invalidated.
C1_GenerationNonCollision ==
    /\ \A i \in retired : Get(arena, i) = None
    /\ \A i2 \in live : Get(arena, i2) # None

\* insert has just reused the slot of a removed Index i and produced i2
C1_Witness ==
    /\ last.op = "insert"
    /\ last.ret # None
    /\ LET i2 == last.ret[1]
       IN  /\ i2 \in live
           /\ \E i \in retired :
                 /\ i.slot = i2.slot
                 /\ GenNext(i.generation) = i2.generation
                 /\ Get(arena, i) = None
                 /\ Get(arena, i2) # None

\* C2: in every reachable state, an insert(v) that returns, returns an Index i
\* with get(i) = Some(v) and contains(i) right afterwards, and len is one more
\* than before.
C2_ValidityRoundTrip ==
    \A v \in Values :
        LET r == InsertOp(arena, v)
        IN  ~r.panicked =>
                /\ r.ret # None
                /\ Get(r.arena, r.ret[1]) = Some(v)
                /\ Contains(r.arena, r.ret[1])
                /\ r.arena.len = len + 1

\* insert has just returned an Index of a reused slot, and the Index resolves
C2_Witness ==
    /\ last.op = "insert"
    /\ last.ret # None
    /\ last.ret[1].generation # GenFirst
    /\ Contains(arena, last.ret[1])
    /\ len = U32Max

\* C3: for every valid Index i, remove(i) returns the value stored under i,
\* decrements len by one, and right afterwards get(i) is None and contains(i)
\* is false.
C3_RemovalInvalidates ==
    \A i \in Indices :
        Valid(arena, i) =>
            LET r == RemoveOp(arena, i)
            IN  /\ ~r.panicked
                /\ r.ret = Some(ValueAt(arena, i))
                /\ r.arena.len + 1 = len
                /\ Get(r.arena, i) = None
                /\ ~Contains(r.arena, i)

\* remove has just returned a value, another value is still stored
C3_Witness ==
    /\ last.op = "remove"
    /\ last.ret # None
    /\ len > 0
    /\ \E i \in retired : Get(arena, i) = None

\* C4: when some freed slot has not been reused yet, insert reuses the one
\* freed last, and the Index it returns has the successor of the generation
\* stored in that slot; storage does not grow. The free list is empty exactly
\* when no freed slot is left, and only then insert appends a slot at the
\* position of the old storage length, with the first generation.
C4_LifoReuse ==
    /\ (first_free = None) <=> (freed = <<>>)
    /\ \A v \in Values :
          LET r == InsertOp(arena, v)
          IN  ~r.panicked =>
                  IF freed # <<>>
                  THEN LET slot == freed[Len(freed)]
                       IN  /\ r.ret = Some(Index(slot,
                                  GenNext(storage[slot + 1].generation)))
                           /\ Len(r.arena.storage) = Len(storage)
                  ELSE /\ r.ret = Some(Index(Len(storage), GenFirst))
                       /\ Len(r.arena.storage) = Len(storage) + 1

\* insert has just reused one of two freed slots; the other is still free
C4_Witness ==
    /\ last.op = "insert"
    /\ last.ret # None
    /\ last.ret[1].generation # GenFirst
    /\ Len(freed) = 1
    /\ freed[1] # last.ret[1].slot

\* C5: len is the number of Occupied entries of storage.
C5_LenCountsOccupied ==
    len = Cardinality({k \in 1..Len(storage) : storage[k].tag = "Occupied"})

\* retain has just visited two Occupied slots and removed one of them
C5_Witness ==
    /\ last.op = "retain"
    /\ Len(last.ret) = 2
    /\ len = 1

\* C6: remove(i) with an Index that is not valid returns None and leaves
\* storage, len and the free-list head as they were.
C6_RemoveInvalidUnchanged ==
    \A i \in Indices :
        Invalid(arena, i) => RemoveOp(arena, i) = Result(arena, None, FALSE)

\* remove has just returned None on an arena that holds a value in a reused
\* slot and has a free slot
C6_Witness ==
    /\ last.op = "remove"
    /\ last.ret = None
    /\ len > 0
    /\ first_free # None
    /\ \E i \in live : i.generation # GenFirst

\* C7: get, get_mut and contains resolve an Index exactly when it is valid,
\* and report None or false when it is not; a store through the reference
\* get_mut returns changes the value under that Index and nothing else.
C7_LookupIffValid ==
    \A i \in Indices :
        /\ Valid(arena, i) <=> ~Invalid(arena, i)
        /\ Contains(arena, i) = Valid(arena, i)
        /\ Get(arena, i) = IF Valid(arena, i) THEN Some(ValueAt(arena, i)) ELSE None
        /\ GetMut(arena, i) = IF Valid(arena, i) THEN Some(i.slot) ELSE None
        /\ \A v \in Values :
              Valid(arena, i) =>
                  LET stored == Store(arena, GetMut(arena, i)[1], v)
                  IN  /\ Structure(stored) = Structure(arena)
                      /\ Get(stored, i) = Some(v)
                      /\ \A j \in Indices :
                            j.slot # i.slot => Get(stored, j) = Get(arena, j)

\* get has just returned None while the arena holds a value and a removed
\* Index exists
C7_Witness ==
    /\ last.op = "get"
    /\ last.ret = None
    /\ len > 0
    /\ retired # {}

\* C8: invalidate(i) on a valid Index returns the Index of the same slot with
\* the successor generation; afterwards get(i) is None, the new Index resolves
\* to the value i resolved to, and len and the free list are as before. On an
\* Index that is not valid it returns None and the arena is unchanged.
C8_Invalidate ==
    \A i \in Indices :
        LET r == InvalidateOp(arena, i)
        IN  IF Valid(arena, i)
            THEN /\ ~r.panicked
                 /\ r.ret = Some(Index(i.slot, GenNext(i.generation)))
                 /\ Get(r.arena, i) = None
                 /\ Get(r.arena, r.ret[1]) = Some(ValueAt(arena, i))
                 /\ r.arena.len = len
                 /\ r.arena.first_free = first_free
                 /\ FreeList(r.arena) = FreeList(arena)
            ELSE r = Result(arena, None, FALSE)

\* invalidate has just returned a new Index while another value is stored
C8_Witness ==
    /\ last.op = "invalidate"
    /\ last.ret # None
    /\ Get(arena, last.ret[1]) # None
    /\ len = 2

\* C9: for every valid Index i with value v, invalidate(i) leaves the arena
\* and returns the Index that remove(i) followed by insert(v) leaves and
\* returns.
C9_InvalidateAsRemoveInsert ==
    \A i \in Indices :
        Valid(arena, i) =>
            InvalidateOp(arena, i) =
                InsertOp(RemoveOp(arena, i).arena, ValueAt(arena, i))

\* invalidate has just returned a new Index while the free list is not empty
C9_Witness ==
    /\ last.op = "invalidate"
    /\ last.ret # None
    /\ first_free # None

\* C10: get2_mut(a, b) panics exactly when a and b have the same slot and the
\* same generation, valid or not.
C10_Get2MutPanicsIffEqual ==
    \A a, b \in Indices :
        Get2MutOp(arena, a, b).panicked <=>
            (a.slot = b.slot /\ a.generation = b.generation)

\* get2_mut has just panicked on an arena in which no Index is valid
C10_Witness ==
    /\ last.op = "get2_mut"
    /\ last.panicked
    /\ len = 0
    /\ Len(storage) > 0


\* C11: for a # b, get2_mut(a, b) returns (get_mut(a), get_mut(b)) and leaves
\* the arena as it was: each reference is present exactly when its Index is
\* valid, two present references point to different cells, two Indices of one
\* slot with different generations give at most one present reference, and a
\* valid Index with a stale one gives exactly one.
C11_Get2MutResolvesEach ==
    /\ \A a, b \in Indices :
           a # b =>
               LET item1 == GetMut(arena, a)
                   item2 == GetMut(arena, b)
               IN  /\ Get2MutOp(arena, a, b) =
                          Result(arena, Some(<<item1, item2>>), FALSE)
                   /\ (item1 # None /\ item2 # None) => item1[1] # item2[1]
                   /\ (a.slot = b.slot) => (item1 = None \/ item2 = None)
    /\ \A a \in Indices :
           GetMut(arena, a) = IF Valid(arena, a) THEN Some(a.slot) ELSE None
    /\ \A a \in live, b \in retired :
           /\ Valid(arena, a)
           /\ Get2MutOp(arena, a, b).ret = Some(<<Some(a.slot), None>>)
           /\ Get2MutOp(arena, b, a).ret = Some(<<None, Some(a.slot)>>)

\* get2_mut has just returned one present and one absent reference on an arena
\* that holds a value in a slot that was reused
C11_Witness ==
    /\ last.op = "get2_mut"
    /\ ~last.panicked
    /\ last.ret[1][1] # None
    /\ last.ret[1][2] = None
    /\ \E i \in live, j \in retired : i.slot = j.slot


\* the Indices of the Occupied slots of A, by ascending slot
OccupiedAscending(A) ==
    SelectSeq([k \in 1..Len(A.storage) |-> Index(k - 1, A.storage[k].generation)],
              LAMBDA index : Valid(A, index))

\* A after remove(i) for each i of gone, in that order
RECURSIVE RemoveEach(_, _)
RemoveEach(A, gone) ==
    IF gone = <<>> THEN A
    ELSE RemoveEach(RemoveOp(A, Head(gone)).arena, Tail(gone))

\* C12: retain(f) calls f once for every Occupied slot, by ascending slot, with
\* the slot's current Index; the arena it leaves is the one left by remove(i)
\* for each rejected i in that order (up to the values f wrote into the kept
\* elements): a rejected slot is Empty with its generation preserved and is on
\* the free list, len drops by the number rejected, and a kept Index stays
\* valid with its generation.
C12_RetainAsRemoves ==
    LET visited == OccupiedAscending(arena)
    IN  \A keep \in SUBSET {visited[k].slot : k \in 1..Len(visited)},
           write \in {None} \cup {Some(v) : v \in Values} :
            LET r        == RetainOp(arena, keep, write)
                rejected == SelectSeq(visited, LAMBDA index : index.slot \notin keep)
                removed  == RemoveEach(arena, rejected)
            IN  /\ r.ret = visited
                /\ ~r.panicked
                /\ Structure(r.arena) = Structure(removed)
                /\ write = None => r.arena = removed
                /\ removed.len + Len(rejected) = len
                /\ Len(removed.storage) = Len(storage)
                /\ \A k \in 1..Len(visited) :
                       LET index == visited[k]
                       IN  IF index.slot \in keep
                           THEN Get(r.arena, index) =
                                    IF write = None THEN Get(arena, index) ELSE write
                           ELSE /\ VecGet(r.arena.storage, index.slot) =
                                       Some(Empty(index.generation,
                                                  removed.storage[index.slot + 1].next_free))
                                /\ ~Contains(r.arena, index)
                                /\ index.slot \in Range(FreeList(removed))
                /\ rejected # <<>> =>
                       r.arena.first_free =
                           Some(FromSlot(rejected[Len(rejected)].slot))

\* retain has just visited two elements, rejecting one and keeping the other
C12_Witness ==
    /\ last.op = "retain"
    /\ Len(last.ret) = 2
    /\ len = 1
    /\ \E k \in 1..2 : Get(arena, last.ret[k]) = None
    /\ \E k \in 1..2 : Get(arena, last.ret[k]) # None


\* a Drain over A at slot after k more calls of next, with the pairs yielded
RECURSIVE DrainTake(_, _, _, _)
DrainTake(A, slot, k, yielded) ==
    IF k = 0
    THEN [arena |-> A, ret |-> yielded, panicked |-> FALSE, slot |-> slot]
    ELSE LET r == DrainNextOp(A, slot)
         IN  DrainTake(r.arena, r.slot, k - 1,
                       IF r.ret = None THEN yielded ELSE Append(yielded, r.ret[1]))

C14_DrainCompleteAndClear ==
    LET full    == DrainAll(arena, 0, <<>>)
        stepped == DrainTake(arena, 0, len + 1, <<>>)
        valid   == OccupiedAscending(arena)
    IN  /\ ~full.panicked
        /\ Len(full.ret) = len
        /\ full.ret = [k \in 1..Len(valid) |-> <<valid[k], ValueAt(arena, valid[k])>>]
        /\ stepped.ret = full.ret
        /\ stepped.arena = full.arena
        /\ full.arena = RemoveEach(arena, valid)
        /\ full.arena.len = 0
        /\ \A i \in Indices : Get(full.arena, i) = None
        /\ \A slot \in Slots :
               VecGet(full.arena.storage, slot) # None =>
                   VecGet(full.arena.storage, slot)[1].tag = "Empty"
        /\ Len(full.arena.storage) = Len(storage)
        /\ ClearOp(arena).arena = full.arena
        /\ ~ClearOp(arena).panicked

\* a Drain over two elements has just reported its end after yielding both
C14_Witness ==
    /\ last.op = "drain_next"
    /\ last.ret = None
    /\ drain # None
    /\ drain[1].yielded = 2
    /\ len = 0
    /\ Len(storage) >= 2


\* C15: remove_by_slot(s) on an Occupied slot s is remove(i) for the slot's
\* current Index i (same arena afterwards) and returns (i, value); on an Empty
\* slot or a slot beyond storage it returns None and leaves the arena as it was.
C15_RemoveBySlotAsRemove ==
    \A s \in Slots :
        LET r   == RemoveBySlotOp(arena, s)
            got == VecGet(storage, s)
        IN  /\ ~r.panicked
            /\ IF got # None /\ got[1].tag = "Occupied"
               THEN LET i == Index(s, got[1].generation)
                    IN  /\ Valid(arena, i)
                        /\ r.ret = Some(<<i, got[1].value>>)
                        /\ r.arena = RemoveOp(arena, i).arena
                        /\ RemoveOp(arena, i).ret = Some(r.ret[1][2])
                        /\ r.arena.storage[s + 1] =
                               Empty(got[1].generation, first_free)
                        /\ r.arena.first_free = Some(FromSlot(s))
                        /\ r.arena.len + 1 = len
               ELSE /\ r.ret = None
                    /\ r.arena = arena

\* remove_by_slot has just removed from a reused slot, whose Index had a later
\* generation than the first
C15_Witness ==
    /\ last.op = "remove_by_slot"
    /\ last.ret # None
    /\ last.ret[1][1].generation = GenNext(GenFirst)
    /\ storage[last.ret[1][1].slot + 1] =
           Empty(last.ret[1][1].generation, storage[last.ret[1][1].slot + 1].next_free)
    /\ first_free = Some(FromSlot(last.ret[1][1].slot))


\* C16: contains_slot, get_by_slot and get_by_slot_mut return the slot's
\* current true Index (with the value for the get variants) exactly when the
\* slot is Occupied, and that Index is valid; they return None for an Empty
\* slot, a removed slot that was not reused among them, and for a slot beyond
\* storage.
C16_SlotLookups ==
    /\ \A s \in Slots :
           LET c   == ContainsSlot(arena, s)
               g   == GetBySlot(arena, s)
               m   == GetBySlotMut(arena, s)
               got == VecGet(storage, s)
           IN  /\ (c # None) <=> (got # None /\ got[1].tag = "Occupied")
               /\ (g # None) <=> (c # None)
               /\ (m # None) <=> (c # None)
               /\ c # None =>
                      /\ c[1].slot = s
                      /\ c[1].generation = storage[s + 1].generation
                      /\ Valid(arena, c[1])
                      /\ Contains(arena, c[1])
                      /\ c[1] \in live
                      /\ g = Some(<<c[1], ValueAt(arena, c[1])>>)
                      /\ Get(arena, g[1][1]) = Some(g[1][2])
                      /\ m[1][1] = c[1]
                      /\ GetMut(arena, m[1][1]) = Some(m[1][2])
    /\ \A k \in 1..Len(FreeList(arena)) :
           LET s == FreeList(arena)[k]
           IN  /\ ContainsSlot(arena, s) = None
               /\ GetBySlot(arena, s) = None
               /\ GetBySlotMut(arena, s) = None
    /\ \A s \in Slots :
           s >= Len(storage) =>
               /\ ContainsSlot(arena, s) = None
               /\ GetBySlot(arena, s) = None
               /\ GetBySlotMut(arena, s) = None

\* get_by_slot has just returned the Index a reused slot has now, which differs
\* from the removed Index of that slot
C16_Witness ==
    /\ last.op = "get_by_slot"
    /\ last.ret # None
    /\ last.ret[1][1].generation # GenFirst
    /\ \E i \in retired : i.slot = last.ret[1][1].slot
    /\ \E s \in Slots : s < Len(storage) /\ storage[s + 1].tag = "Empty"


\* the entries of A and B agree on every slot of A but those in touched, and B
\* has no fewer slots than A: every Index that is valid in A on another slot
\* is valid in B with the same value
FrameHolds(A, B, touched) ==
    /\ Len(B.storage) >= Len(A.storage)
    /\ \A s \in Slots :
           (s < Len(A.storage) /\ s \notin touched) =>
               B.storage[s + 1] = A.storage[s + 1]
    /\ \A j \in Indices :
           (Valid(A, j) /\ j.slot \notin touched) =>
               /\ Valid(B, j)
               /\ Get(B, j) = Get(A, j)

\* C17: insert, remove, remove_by_slot, invalidate and get2_mut leave every
\* slot but the one they act on untouched: an Index that is valid on another
\* slot stays valid with its slot, generation and value; no slot is renumbered
\* and storage never gets shorter.
C17_Frame ==
    /\ \A value \in Values :
           LET r == InsertOp(arena, value)
           IN  FrameHolds(arena, r.arena,
                          IF r.ret = None THEN {} ELSE {r.ret[1].slot})
    /\ \A i \in Indices :
           /\ FrameHolds(arena, RemoveOp(arena, i).arena, {i.slot})
           /\ FrameHolds(arena, InvalidateOp(arena, i).arena, {i.slot})
    /\ \A s \in Slots :
           FrameHolds(arena, RemoveBySlotOp(arena, s).arena, {s})
    /\ \A a, b \in Indices : Get2MutOp(arena, a, b).arena = arena
    /\ \A a, b \in HandedOut :
           FrameHolds(arena, Get2MutOp(arena, a, b).arena, {a.slot, b.slot})

\* remove has just emptied the first of two slots and the Index on the second
\* is still live
C17_Witness ==
    /\ last.op = "remove"
    /\ last.ret # None
    /\ Len(storage) = 2
    /\ storage[1].tag = "Empty"
    /\ storage[2].tag = "Occupied"
    /\ Index(1, storage[2].generation) \in live


\* the Indices whose generation is a non-zero u32
U32Indices == {Index(s, g) : s \in Slots, g \in 1..U32Max}

\* C18: to_bits packs the generation into the high word and the slot into the
\* low word of a u64; from_bits(to_bits(i)) = i for every Index the arena has
\* handed out (and every Index with a non-zero generation), and
\* to_bits(from_bits(b)) = b for every u64 b whose high word is not zero.
C18_BitsRoundTrip ==
    /\ HandedOut \subseteq U32Indices
    /\ \A i \in U32Indices :
           /\ ToBits(i) \in Bits64
           /\ ToBits(i) \div Word = i.generation
           /\ ToBits(i) % Word = i.slot
           /\ FromBits(ToBits(i)) = [ret |-> Some(i), panicked |-> FALSE]
    /\ \A b \in Bits64 :
           b \div Word # 0 =>
               /\ ~FromBits(b).panicked
               /\ FromBits(b).ret # None
               /\ ToBits(FromBits(b).ret[1]) = b

\* to_bits has just packed a live Index of a reused slot, and from_bits gives
\* that Index back
C18_Witness ==
    /\ last.op = "to_bits"
    /\ \E i \in live :
           /\ i.generation # GenFirst
           /\ i.slot # 0
           /\ last.ret = Some(ToBits(i))
           /\ FromBits(last.ret[1]).ret = Some(i)

\* C19: from_bits panics on every u64 whose high word is zero, whatever the low
\* word is, and no Index that insert or invalidate returns has generation zero.
C19_ZeroGenerationRejected ==
    /\ \A low \in 0..U32Max :
           /\ FromBits(low).panicked
           /\ FromBits(low).ret = None
    /\ \A b \in Bits64 : FromBits(b).panicked => b \div Word = 0
    /\ \A i \in HandedOut : i.generation # 0
    /\ \A value \in Values :
           InsertOp(arena, value).ret # None =>
               InsertOp(arena, value).ret[1].generation # 0
    /\ \A i \in Indices :
           InvalidateOp(arena, i).ret # None =>
               InvalidateOp(arena, i).ret[1].generation # 0
    /\ \A i \in HandedOut : ~FromBits(ToBits(i)).panicked

\* from_bits has just panicked, on an arena that has handed out Indices by
\* insert and by invalidate
C19_Witness ==
    /\ last.op = "from_bits"
    /\ last.panicked
    /\ last.ret = None
    /\ \E i \in live, j \in retired : i.slot = j.slot /\ Valid(arena, i)


\* C20: insert succeeds unless len is u32::MAX; then it panics and leaves the
\* arena exactly as it was; every slot number insert hands out fits in a u32.
C20_InsertPanicsOnlyWhenFull ==
    /\ \A value \in Values :
           LET r == InsertOp(arena, value)
           IN  /\ r.panicked <=> (len = U32Max)
               /\ r.panicked => (r.arena = arena /\ r.ret = None)
               /\ ~r.panicked =>
                      /\ r.ret # None
                      /\ r.ret[1].slot \in 0..U32Max
                      /\ r.ret[1].slot < Len(r.arena.storage)
                      /\ Get(r.arena, r.ret[1]) = Some(value)
                      /\ r.arena.len = len + 1
    /\ \A i \in HandedOut : i.slot \in 0..U32Max
    /\ Len(storage) <= U32Max
    /\ len <= U32Max

\* insert has just panicked on an arena that holds u32::MAX elements, and they
\* are all still there
C20_Witness ==
    /\ last.op = "insert"
    /\ last.panicked
    /\ last.ret = None
    /\ len = U32Max
    /\ Cardinality(live) = U32Max
    /\ \A i \in live : Get(arena, i) # None


\* C21: iter and iter_mut yield one pair per Occupied slot, by ascending slot,
\* and none for an Empty slot; the Index of a pair is the slot's current valid
\* Index and its item the slot's value (for iter_mut a reference to it); there
\* are len pairs; iterating, and storing through iter_mut's references, leaves
\* occupancy, generations, len and the free list as they were.
C21_IterYieldsOccupied ==
    LET it  == IterOp(arena)
        itm == IterMutOp(arena)
    IN  /\ ~it.panicked /\ ~itm.panicked
        /\ it.arena = arena /\ itm.arena = arena
        /\ Len(it.ret) = len
        /\ Len(itm.ret) = len
        /\ \A k \in 1..Len(it.ret) :
               /\ Valid(arena, it.ret[k][1])
               /\ Get(arena, it.ret[k][1]) = Some(it.ret[k][2])
               /\ itm.ret[k][1] = it.ret[k][1]
               /\ GetMut(arena, itm.ret[k][1]) = Some(itm.ret[k][2])
               /\ k > 1 => it.ret[k - 1][1].slot < it.ret[k][1].slot
        /\ \A s \in Slots :
               ContainsSlot(arena, s) # None =>
                   \E k \in 1..Len(it.ret) : it.ret[k][1] = ContainsSlot(arena, s)[1]
        /\ \A value \in Values :
               LET written == StoreEach(arena,
                                        [k \in 1..Len(itm.ret) |-> itm.ret[k][2]],
                                        value)
               IN  /\ Structure(written) = Structure(arena)
                   /\ \A k \in 1..Len(itm.ret) :
                          Get(written, itm.ret[k][1]) = Some(value)

\* iter has just yielded the one element of an arena whose first slot is Empty
C21_Witness ==
    /\ last.op = "iter"
    /\ Len(last.ret) = 1
    /\ Len(storage) = 2
    /\ storage[1].tag = "Empty"
    /\ last.ret[1][1] = Index(1, storage[2].generation)
    /\ last.ret[1][2] = storage[2].value


\* C22: every slot reached from first_free by following next_free is below the
\* length of storage and holds an Empty entry, so that the reuse path of insert
\* finds an Empty entry under first_free and takes neither of its
\* unreachable!() arms.
C22_FreeListWellFormed ==
    /\ \A k \in 1..Len(FreeList(arena)) :
           LET s == FreeList(arena)[k]
           IN  /\ s \in 0..(Len(storage) - 1)
               /\ storage[s + 1].tag = "Empty"
               /\ FromSlot(s) >= 1
    /\ first_free # None =>
           LET got == VecGet(storage, FreeSlot(first_free[1]))
           IN  /\ got # None
               /\ got[1].tag = "Empty"
               /\ \A value \in Values :
                      LET r == InsertOp(arena, value)
                      IN  r.panicked => (len = U32Max /\ r.arena = arena)

\* remove has just put a second slot on the free list, in front of the first
C22_Witness ==
    /\ last.op = "remove"
    /\ last.ret # None
    /\ Len(FreeList(arena)) = 2
    /\ first_free # None
    /\ storage[FreeSlot(first_free[1]) + 1].next_free # None


\* the generation stored in slot s of A, 0 where A has no such slot
GenerationAt(A, s) ==
    IF s < Len(A.storage) THEN A.storage[s + 1].generation ELSE 0

\* no slot of B has an earlier generation than it has in A
Advances(A, B) == \A s \in Slots : GenerationAt(B, s) >= GenerationAt(A, s)

\* B has the generations of A in every slot of A
SameGenerations(A, B) ==
    \A s \in Slots : s < Len(A.storage) => GenerationAt(B, s) = GenerationAt(A, s)

\* what C23 says of one arena and of the calls made on it
GenerationCarriedOver ==
    /\ \A s \in Slots :
           s < Len(storage) =>
               LET entry == storage[s + 1]
                   index == Index(s, entry.generation)
               IN  /\ entry.generation >= GenFirst
                   /\ entry.generation # 0
                   /\ \A i \in HandedOut :
                          i.slot = s => i.generation <= entry.generation
                   /\ IF entry.tag = "Empty"
                      THEN index \in retired
                      ELSE index \in live
    /\ \A i \in Indices : SameGenerations(arena, RemoveOp(arena, i).arena)
    /\ \A s \in Slots : SameGenerations(arena, RemoveBySlotOp(arena, s).arena)
    /\ SameGenerations(arena, RetainOp(arena, {}, None).arena)
    /\ SameGenerations(arena, DrainNextOp(arena, 0).arena)
    /\ SameGenerations(arena, ClearOp(arena).arena)
    /\ first_free # None =>
           \A value \in Values :
               LET r == InsertOp(arena, value)
                   s == FreeSlot(first_free[1])
               IN  r.ret # None =>
                       /\ r.ret[1] = Index(s, GenNext(GenerationAt(arena, s)))
                       /\ GenerationAt(r.arena, s) = GenNext(GenerationAt(arena, s))

\* C23: remove, remove_by_slot, retain and the drain leave the generation of
\* the slot they empty as it was, so that an Empty slot has the generation of
\* the Index that was valid for it last (one minted by invalidate included)
\* and the Index insert returns when it reuses the slot has the successor of
\* that generation; the generation stored in a slot never goes back and is
\* never zero.
C23_GenerationCarryOver ==
    /\ []GenerationCarriedOver
    /\ [][Advances(arena, Arena(storage', len', first_free'))]_vars

\* remove has just emptied a slot whose Index had the second generation, and
\* the slot keeps that generation
C23_Witness ==
    /\ last.op = "remove"
    /\ last.ret # None
    /\ \E s \in Slots :
           /\ s < Len(storage)
           /\ storage[s + 1].tag = "Empty"
           /\ storage[s + 1].generation = GenNext(GenFirst)
           /\ first_free = Some(FromSlot(s))
           /\ Index(s, GenNext(GenFirst)) \in retired


\* the slots of A that hold an Empty entry
EmptySlots(A) ==
    {s \in Slots : s < Len(A.storage) /\ A.storage[s + 1].tag = "Empty"}

\* C24: every Empty slot is on the free list exactly once (the list has no
\* cycle and no slot twice), so that the length of storage is len plus the
\* length of the free list; insert appends a slot only when storage holds no
\* Empty slot; the length of storage is the largest number of elements the
\* arena has held at once.
C24_FreeListComplete ==
    LET list == FreeList(arena)
    IN  /\ Range(list) = EmptySlots(arena)
        /\ Cardinality(Range(list)) = Len(list)
        /\ \A j, k \in 1..Len(list) : list[j] = list[k] => j = k
        /\ Len(storage) = len + Len(list)
        /\ (first_free = None) <=> (EmptySlots(arena) = {})
        /\ \A value \in Values :
               LET r == InsertOp(arena, value)
               IN  /\ Len(r.arena.storage) > Len(storage) =>
                          (EmptySlots(arena) = {} /\ len = Len(storage))
                   /\ (EmptySlots(arena) # {} /\ ~r.panicked) =>
                          /\ Len(r.arena.storage) = Len(storage)
                          /\ r.ret[1].slot \in EmptySlots(arena)
                          /\ Len(FreeList(r.arena)) + 1 = Len(list)
        /\ Len(storage) = peak

\* insert has just reused one of two freed slots: storage has as many slots as
\* the arena once held elements, one Occupied and one on the free list
C24_Witness ==
    /\ last.op = "insert"
    /\ last.ret # None
    /\ last.ret[1].generation # GenFirst
    /\ len = 1
    /\ peak = 2
    /\ Len(storage) = 2
    /\ Len(FreeList(arena)) = 1

====
